---------------------------- MODULE Spec2Model ----------------------------
(***************************************************************************)
(* A model of src/src/App.jsx: the text-to-notes pipeline (cleanText,      *)
(* sentenceSplit, tokenize, topTerms, chunkOutline, keyTakeaways,          *)
(* guessTitle, toMarkdown) and the App component's file handling           *)
(* (handleFiles, onDrop, openFilePicker, the file input, onCopy, the two   *)
(* textareas).                                                             *)
(*                                                                         *)
(* A JavaScript string is a sequence of characters; a character is a       *)
(* one-character TLA+ string, except for the few non-ASCII characters the  *)
(* source names, which are the symbolic values NBSP, BULLET, EMDASH, ...   *)
(***************************************************************************)
EXTENDS Integers, Sequences, FiniteSets, TLC

VARIABLES
    text,        \* the argument of the pipeline function under test
    op,          \* which pipeline function has been applied ("none" at first)
    arg,         \* its numeric argument (n of keyTakeaways, k of topTerms)
    cleaned,     \* cleanText(text)
    cleaned2,    \* cleanText(cleanText(text))
    title,       \* guessTitle(text)
    takeaways,   \* keyTakeaways(text, arg)
    outline,     \* chunkOutline(text)
    prov,        \* for each chunk of outline, the indices of the lines it was built from
    terms,       \* topTerms(text, arg)
    md,          \* toMarkdown(text)
    stage,       \* App: useState stage
    rawText,     \* App: useState rawText
    markdown,    \* App: useState markdown
    busy,        \* App: useState busy
    pickerOpen,  \* the browser's file chooser, opened by inputRef.current.click()
    calls        \* the handleFiles invocations so far, each with its position

pipeVars == <<text, op, arg, cleaned, cleaned2, title, takeaways, outline, prov, terms, md>>
appVars == <<stage, rawText, markdown, busy, pickerOpen, calls>>
vars == <<pipeVars, appVars>>

(***************************************************************************)
(* Characters                                                              *)
(***************************************************************************)
NBSP == "nbsp"
BULLET == "bullet"
EMDASH == "emdash"
TAB == "\t"
NL == "\n"
CR == "\r"

UpperSeq == <<"A","B","C","D","E","F","G","H","I","J","K","L","M","N","O","P","Q","R","S","T","U","V","W","X","Y","Z">>
LowerSeq == <<"a","b","c","d","e","f","g","h","i","j","k","l","m","n","o","p","q","r","s","t","u","v","w","x","y","z">>
Upper == {UpperSeq[i] : i \in 1..26}
Lower == {LowerSeq[i] : i \in 1..26}
Digit == {"0","1","2","3","4","5","6","7","8","9"}
\* what \s and String.prototype.trim treat as white space
WhiteSpace == {" ", TAB, NL, CR, NBSP}

toLowerCase(c) == IF c \in Upper THEN LowerSeq[CHOOSE i \in 1..26 : UpperSeq[i] = c] ELSE c
toUpperCase(c) == IF c \in Lower THEN UpperSeq[CHOOSE i \in 1..26 : LowerSeq[i] = c] ELSE c

Min(a, b) == IF a < b THEN a ELSE b
Max(a, b) == IF a > b THEN a ELSE b

(***************************************************************************)
(* String helpers: what the regular expressions and string methods of the  *)
(* source do, character by character.                                      *)
(***************************************************************************)
\* s.slice(0, e) of a string or an array: a negative e counts from the end
Slice0(s, e) == SubSeq(s, 1, IF e < 0 THEN Max(Len(s) + e, 0) ELSE Min(e, Len(s)))

\* s.trim()
TrimStart(s) == IF \A i \in 1..Len(s) : s[i] \in WhiteSpace THEN <<>> ELSE SubSeq(s, CHOOSE i \in 1..Len(s) : s[i] \notin WhiteSpace /\ \A j \in 1..(i-1) : s[j] \in WhiteSpace, Len(s))
TrimEnd(s) == IF \A i \in 1..Len(s) : s[i] \in WhiteSpace THEN <<>> ELSE SubSeq(s, 1, CHOOSE i \in 1..Len(s) : s[i] \notin WhiteSpace /\ \A j \in (i+1)..Len(s) : s[j] \in WhiteSpace)
Trim(s) == TrimEnd(TrimStart(s))

\* the elements of s at the indices in K, in order (by halves, so that the
\* evaluation of a long string stays shallow)
RECURSIVE KeepIn(_, _, _, _)
KeepIn(s, lo, hi, K) ==
    IF lo > hi THEN <<>>
    ELSE IF lo = hi THEN (IF lo \in K THEN <<s[lo]>> ELSE <<>>)
    ELSE LET mid == (lo + hi) \div 2
         IN  KeepIn(s, lo, mid, K) \o KeepIn(s, mid + 1, hi, K)
Keep(s, K) == KeepIn(s, 1, Len(s), K)

\* arr.join(sep) of an array of strings
RECURSIVE JoinIn(_, _, _, _)
JoinIn(arr, lo, hi, sep) ==
    IF lo > hi THEN <<>>
    ELSE IF lo = hi THEN arr[lo]
    ELSE LET mid == (lo + hi) \div 2
         IN  JoinIn(arr, lo, mid, sep) \o sep \o JoinIn(arr, mid + 1, hi, sep)
Join(arr, sep) == JoinIn(arr, 1, Len(arr), sep)

\* s.split(re) where re matches the maximal runs of the indices in Seps: the
\* pieces before, between and after the runs, empty pieces at the two ends
\* included ("".split(re) is [""])
Split(s, Seps) ==
    LET n == Len(s)
        idx == [i \in 1..n |-> i]
        starts == Keep(idx, {i \in Seps : (i - 1) \notin Seps})
        ends == Keep(idx, {i \in Seps : (i + 1) \notin Seps})
        m == Len(starts)
    IN  [k \in 1..(m + 1) |->
            SubSeq(s, IF k = 1 THEN 1 ELSE ends[k-1] + 1, IF k = m + 1 THEN n ELSE starts[k] - 1)]

(***************************************************************************)
(* cleanText, lines 19-25                                                  *)
(***************************************************************************)
\* .replace(/\u00A0/g, " ")
ReplaceNbsp(t) == [i \in 1..Len(t) |-> IF t[i] = NBSP THEN " " ELSE t[i]]

\* .replace(/[\t ]+/g, " ")
CollapseBlanks(t) ==
    LET Blank == {i \in 1..Len(t) : t[i] \in {TAB, " "}}
        s == [i \in 1..Len(t) |-> IF i \in Blank THEN " " ELSE t[i]]
    IN  Keep(s, {i \in 1..Len(t) : i \notin Blank \/ (i - 1) \notin Blank})

\* .replace(/\n{3,}/g, "\n\n")
CollapseNewlines(t) ==
    LET Third == {i \in 3..Len(t) : t[i] = NL /\ t[i-1] = NL /\ t[i-2] = NL}
    IN  Keep(t, (1..Len(t)) \ Third)

\* cleanText with the first two replacements in the other order
cleanTextSwapped(t) == Trim(CollapseNewlines(ReplaceNbsp(CollapseBlanks(t))))
cleanText(t) == Trim(CollapseNewlines(CollapseBlanks(ReplaceNbsp(t))))

\* .replace(/\s+/g, " ")
CollapseWhiteSpace(t) ==
    LET Ws == {i \in 1..Len(t) : t[i] \in WhiteSpace}
        s == [i \in 1..Len(t) |-> IF i \in Ws THEN " " ELSE t[i]]
    IN  Keep(s, {i \in 1..Len(t) : i \notin Ws \/ (i - 1) \notin Ws})

\* s.split(/\n+/)
SplitLines(s) == Split(s, {i \in 1..Len(s) : s[i] = NL})

\* s.split(/\s+/)
SplitWords(s) == Split(s, {i \in 1..Len(s) : s[i] \in WhiteSpace})

\* s.split(/(?<=[.!?])\s+/): a separator is a run of white space that starts
\* right after ".", "!" or "?"
RECURSIVE AfterStop(_, _)
AfterStop(s, i) ==
    /\ i > 1
    /\ s[i] \in WhiteSpace
    /\ \/ s[i-1] \in {".", "!", "?"}
       \/ AfterStop(s, i - 1)
SplitSentences(s) == Split(s, {i \in 1..Len(s) : AfterStop(s, i)})

\* arr.filter(x => Ok has x)
Filter(arr, Ok) == Keep(arr, {i \in 1..Len(arr) : arr[i] \in Ok})

Range(arr) == {arr[i] : i \in 1..Len(arr)}

(***************************************************************************)
(* sentenceSplit, lines 27-32                                              *)
(***************************************************************************)
SentenceMinLen == 2
sentenceSplit(t) ==
    LET parts == SplitSentences(CollapseWhiteSpace(cleanText(t)))
    IN  Filter(parts, {s \in Range(parts) : Len(s) > SentenceMinLen})

(***************************************************************************)
(* STOPWORDS, lines 42-46, and tokenize, lines 34-40                       *)
(***************************************************************************)
STOPWORDS == {
    <<"t","h","e">>, <<"a">>, <<"a","n">>, <<"a","n","d">>,
    <<"o","r">>, <<"o","f">>, <<"t","o">>, <<"i","n">>,
    <<"i","s">>, <<"a","r","e">>, <<"w","a","s">>, <<"w","e","r","e">>,
    <<"b","e">>, <<"b","e","e","n">>, <<"f","o","r">>, <<"w","i","t","h">>,
    <<"o","n">>, <<"a","t">>, <<"b","y">>, <<"f","r","o","m">>,
    <<"a","s">>, <<"t","h","a","t">>, <<"t","h","i","s">>, <<"t","h","e","s","e">>,
    <<"t","h","o","s","e">>, <<"i","n","t","o">>, <<"o","v","e","r">>, <<"u","n","d","e","r">>,
    <<"a","b","o","u","t">>, <<"a","f","t","e","r">>, <<"b","e","f","o","r","e">>, <<"b","e","t","w","e","e","n">>,
    <<"w","i","t","h","i","n">>, <<"w","i","t","h","o","u","t">>, <<"u","s","i","n","g">>, <<"u","s","e">>,
    <<"u","s","e","d">>, <<"t","h","a","n">>, <<"m","o","r","e">>, <<"m","o","s","t">>,
    <<"v","e","r","y">>, <<"m","u","c","h">>, <<"m","a","n","y">>, <<"c","a","n">>,
    <<"c","o","u","l","d">>, <<"s","h","o","u","l","d">>, <<"w","o","u","l","d">>, <<"m","a","y">>,
    <<"m","i","g","h","t">>, <<"n","o","t">>, <<"n","o">>, <<"y","e","s">>,
    <<"i","f">>, <<"t","h","e","n">>, <<"w","h","e","n">>, <<"w","h","e","r","e">>,
    <<"h","o","w">>, <<"w","h","a","t">>, <<"w","h","o">>, <<"w","h","i","c","h">>,
    <<"a","l","s","o">>, <<"e","t","c">>, <<"d","a","t","a">>, <<"i","n","f","o">>,
    <<"p","a","g","e">>, <<"s","l","i","d","e">>, <<"f","i","g","u","r","e">>, <<"t","a","b","l","e">>,
    <<"s","e","c","t","i","o","n">>, <<"c","h","a","p","t","e","r">>, <<"a","r","t","i","c","l","e">>}

TokenMinLen == 2
\* .toLowerCase().replace(/[^a-z0-9\s-]/gi, " ")
Normalise(t) ==
    [i \in 1..Len(t) |->
        LET c == toLowerCase(t[i])
        IN  IF c \in Lower \cup Digit \cup WhiteSpace \cup {"-"} THEN c ELSE " "]

tokenize(t) ==
    LET words == SplitWords(Normalise(cleanText(t)))
    IN  Filter(words, {w \in Range(words) : Len(w) > TokenMinLen /\ w \notin STOPWORDS})

(***************************************************************************)
(* Array.prototype.sort with the comparator (a, b) => b.score - a.score:   *)
(* descending by score and, the sort being stable (ECMAScript 2019),       *)
(* elements of equal score in their original order.  Insertion from the    *)
(* left: each element goes behind every element already placed whose       *)
(* score is at least its own.                                              *)
(***************************************************************************)
RECURSIVE SortByScore(_)
SortByScore(arr) ==
    IF arr = <<>> THEN <<>>
    ELSE LET n == Len(arr)
             x == arr[n]
             rest == SortByScore(SubSeq(arr, 1, n - 1))
             p == Cardinality({j \in 1..Len(rest) : rest[j].score >= x.score})
         IN  SubSeq(rest, 1, p) \o <<x>> \o SubSeq(rest, p + 1, Len(rest))

(***************************************************************************)
(* topTerms, lines 48-55                                                   *)
(***************************************************************************)
\* the keys of the Map freq in insertion order: each token at its first occurrence
MapKeys(tokens) == Keep(tokens, {i \in 1..Len(tokens) : \A j \in 1..(i-1) : tokens[j] # tokens[i]})
\* freq.get(w)
Count(tokens, w) == Cardinality({i \in 1..Len(tokens) : tokens[i] = w})
DefaultK == 12
topTerms(t, k) ==
    LET tokens == tokenize(t)
        keys == MapKeys(tokens)
        entries == [i \in 1..Len(keys) |-> [w |-> keys[i], score |-> Count(tokens, keys[i])]]
        top == Slice0(SortByScore(entries), k)
    IN  [i \in 1..Len(top) |-> top[i].w]

(***************************************************************************)
(* chunkOutline, lines 57-78                                               *)
(***************************************************************************)
HeadingMaxLen == 80
HeadingMinTail == 3
STR_Section == <<"S","e","c","t","i","o","n">>
\* /^(\d+\.|\-|BULLET)?\s*[A-Z][A-Za-z0-9\s\-]{3,}$/.test(line): p is where the
\* optional prefix ends, q where the white space after it ends
HeadingPattern(line) ==
    LET n == Len(line)
        Digits(d) == \A j \in 1..d : line[j] \in Digit
        PrefixEnds == {0} \cup {p \in 1..n : \/ (p = 1 /\ line[1] \in {"-", BULLET})
                                             \/ (p >= 2 /\ line[p] = "." /\ Digits(p - 1))}
    IN  \E p \in PrefixEnds : \E q \in p..n :
            /\ \A j \in (p+1)..q : line[j] \in WhiteSpace
            /\ q + 1 <= n
            /\ line[q+1] \in Upper
            /\ n - (q + 1) >= HeadingMinTail
            /\ \A j \in (q+2)..n : line[j] \in Upper \cup Lower \cup Digit \cup WhiteSpace \cup {"-"}
isHeading(line) == HeadingPattern(line) /\ Len(line) < HeadingMaxLen

\* The loop's state: chunks, buf, and for the record the indices of the
\* lines each chunk (prov) and the buffer (bufIdx) were built from.
OutlineStart == [chunks |-> <<>>, prov |-> <<>>, buf |-> <<>>, bufIdx |-> <<>>]
\* push("Section", buf), lines 61, 68 and 76
PushSection(st) == [st EXCEPT !.chunks = Append(@, [heading |-> STR_Section, body |-> Join(st.buf, <<" ">>)]), !.prov = Append(@, st.bufIdx)]
\* lines 67-70 without buf = []
FlushKeepingBuf(st) == IF Len(st.buf) > 0 THEN PushSection(st) ELSE st
\* lines 67-70: if (buf.length) { push("Section", buf); buf = []; }
Flush(st) == IF Len(st.buf) > 0 THEN [PushSection(st) EXCEPT !.buf = <<>>, !.bufIdx = <<>>] ELSE st
\* line 71
PushHeading(st, line, i) == [st EXCEPT !.chunks = Append(@, [heading |-> Trim(line), body |-> <<>>]), !.prov = Append(@, <<i>>)]
\* line 73
PushLine(st, line, i) == [st EXCEPT !.buf = Append(@, Trim(line)), !.bufIdx = Append(@, i)]
\* the loop body without lines 67-70: a heading is pushed while the lines
\* before it stay in buf
OutlineStepNoFlush(st, line, i) ==
    IF isHeading(line) THEN PushHeading(st, line, i) ELSE PushLine(st, line, i)
\* the loop body, lines 63-74
OutlineStep(st, line, i) ==
    IF isHeading(line) THEN PushHeading(Flush(st), line, i) ELSE PushLine(st, line, i)
RECURSIVE OutlineLoop(_, _, _)
OutlineLoop(lines, i, st) ==
    IF i > Len(lines) THEN st ELSE OutlineLoop(lines, i + 1, OutlineStep(st, lines[i], i))
\* lines 58-60, 62, 76-77
OutlineRun(t) ==
    LET lines == SplitLines(cleanText(t))
        st == OutlineLoop(lines, 1, OutlineStart)
    IN  IF Len(st.buf) > 0 THEN PushSection(st) ELSE st
chunkOutline(t) == OutlineRun(t).chunks

(***************************************************************************)
(* keyTakeaways, lines 80-91                                               *)
(***************************************************************************)
ScoreCap == 8
DefaultN == 6
\* lines 82-86
Scored(S) ==
    [i \in 1..Len(S) |->
        LET words == tokenize(S[i])
        IN  [s |-> S[i], score |-> Cardinality(Range(words)) + Min(ScoreCap, Len(words))]]
keyTakeaways(t, n) ==
    LET scores == Scored(sentenceSplit(t))
        top == Slice0(SortByScore(scores), Min(n, Len(scores)))
    IN  [i \in 1..Len(top) |-> top[i].s]

(***************************************************************************)
(* guessTitle, lines 93-98                                                 *)
(***************************************************************************)
TitleTerms == 5
TitleMaxLen == 80
STR_Notes == <<"N","o","t","e","s">>
\* .replace(/^[\-BULLET\d.\s]+/, "")
StripPrefix(s) ==
    LET Pre == {"-", BULLET, "."} \cup Digit \cup WhiteSpace
    IN  IF \A i \in 1..Len(s) : s[i] \in Pre THEN <<>>
        ELSE SubSeq(s, CHOOSE i \in 1..Len(s) : s[i] \notin Pre /\ \A j \in 1..(i-1) : s[j] \in Pre, Len(s))
\* w[0].toUpperCase() + w.slice(1)
Capitalise(w) == <<toUpperCase(w[1])>> \o Tail(w)
\* x || "Notes": the empty string is falsy
OrNotes(x) == IF x = <<>> THEN STR_Notes ELSE x
guessTitle(t) ==
    LET firstLine == OrNotes(SplitLines(cleanText(t))[1])
        top == topTerms(t, TitleTerms)
        capitalised == [i \in 1..Len(top) |-> Capitalise(top[i])]
    IN  IF Len(firstLine) < TitleMaxLen
        THEN StripPrefix(firstLine)
        ELSE OrNotes(Join(capitalised, <<" ", BULLET, " ">>))

(***************************************************************************)
(* toMarkdown, lines 100-119                                               *)
(***************************************************************************)
BodyCut == 220
STR_KeyTakeaways == <<"#","#"," ","K","e","y"," ","T","a","k","e","a","w","a","y","s">>
STR_Outline == <<"#","#"," ","O","u","t","l","i","n","e">>
STR_Terms == <<"#","#"," ","T","e","r","m","s">>
TitleLine(t) == <<"#", " ">> \o t
TakeawayLine(t) == <<"-", " ">> \o t
OutlineLineUncut(c) == <<"-", " ", "*", "*">> \o c.heading \o <<"*", "*", " ", EMDASH, " ">> \o c.body
OutlineLine(c) == <<"-", " ", "*", "*">> \o c.heading \o <<"*", "*", " ", EMDASH, " ">> \o Slice0(c.body, BodyCut)
TermsLine(ts) == <<">", " ">> \o Join(ts, <<",", " ">>)
toMarkdown(allText) ==
    LET tk == keyTakeaways(allText, DefaultN)
        ol == chunkOutline(allText)
    IN  Join(<<TitleLine(guessTitle(allText)), <<>>, STR_KeyTakeaways>>
             \o [i \in 1..Len(tk) |-> TakeawayLine(tk[i])]
             \o <<<<>>, STR_Outline>>
             \o [i \in 1..Len(ol) |-> OutlineLine(ol[i])]
             \o <<<<>>, STR_Terms, TermsLine(topTerms(allText, DefaultK))>>,
             <<NL>>)

(***************************************************************************)
(* The pipeline functions applied to bounded inputs                        *)
(***************************************************************************)
MaxUnits == 3
MaxArg == 2
MaxLen == 6

RECURSIVE Repeat(_, _)
Repeat(s, n) == IF n = 0 THEN <<>> ELSE IF n = 1 THEN s ELSE Repeat(s, n \div 2) \o Repeat(s, n - (n \div 2))

\* texts made of at most n units, a unit being a word and what follows it
Words == {<<"I","n","t","r","o">>, <<"c","a","t">>, <<"t","h","e">>, <<"-">>}
Separators == {<<" ">>, <<".", " ">>, <<NL>>}
Units == {w \o s : w \in Words, s \in Separators}
RECURSIVE UnitTexts(_)
UnitTexts(n) == IF n = 0 THEN {<<>>} ELSE LET T == UnitTexts(n - 1) IN T \cup {t \o u : t \in T, u \in Units}

\* strings of at most n characters over white space and a letter
RECURSIVE Strings(_, _)
Strings(A, n) == IF n = 0 THEN {<<>>} ELSE LET T == Strings(A, n - 1) IN T \cup {Append(t, c) : t \in T, c \in A}

OutlineExample == <<"I","n","t","r","o","d","u","c","t","i","o","n",NL,"S","o","m","e"," ","b","o","d","y"," ","t","e","x","t"," ","h","e","r","e",".",NL,"M","o","r","e"," ","b","o","d","y",".",NL,NL,"C","o","n","c","l","u","s","i","o","n",NL,"F","i","n","a","l"," ","r","e","m","a","r","k","s",".">>
TermsExample == <<"c","a","t"," ","c","a","t"," ","c","a","t"," ","d","o","g"," ","d","o","g"," ","b","i","r","d">>
SentenceExample == <<"A","B","C","."," ","D","E","F","!"," ","G","H","I","?">>
\* a first line of 80 characters or more, with terms
LongLineExample == Repeat(<<"c","a","t"," ","d","o","g"," ","c","a","t","."," ">>, 7) \o <<NL,"1","."," ","B","i","r","d"," ","t","a","b","l","e">>
\* a first line of 80 characters or more, without any term
LongEmptyExample == Repeat(<<"t","h","e"," ","o","f","."," ">>, 11)
\* a body of more than 220 characters
LongBodyExample == <<"I","n","t","r","o",NL>> \o Repeat(<<"c","a","t"," ","d","o","g"," ","b","i","r","d","."," ">>, 16)
MixedExample == <<TAB,BULLET," ","P","l","a","n",NBSP," ","B",NL,"1","."," ","I","n","t","r","o",NL,NL,"t","h","e"," "," "," ","c","a","t","-","n","a","p"," ","i","s"," ","a","t"," ","1","0",".","3","0","!"," "," ","I","s"," ","i","t","?",NL,NL,"2",".","5"," ","c","a","t","s">>
Examples == {OutlineExample, TermsExample, SentenceExample, LongLineExample, LongEmptyExample, LongBodyExample, MixedExample}

Inputs == UnitTexts(MaxUnits) \cup Examples
Args == (-MaxArg)..MaxArg

AppIdle ==
    /\ stage = "Drop a PDF or image to begin"
    /\ rawText = <<>>
    /\ markdown = <<>>
    /\ busy = FALSE
    /\ pickerOpen = FALSE
    /\ calls = <<>>

PipeIdle ==
    /\ op = "none"
    /\ arg = 0
    /\ cleaned = <<>>
    /\ cleaned2 = <<>>
    /\ title = <<>>
    /\ takeaways = <<>>
    /\ outline = <<>>
    /\ prov = <<>>
    /\ terms = <<>>
    /\ md = <<>>

Init ==
    /\ text \in Inputs
    /\ PipeIdle
    /\ AppIdle

CallGuessTitle ==
    /\ op = "none"
    /\ op' = "guessTitle"
    /\ title' = guessTitle(text)
    /\ UNCHANGED <<text, arg, cleaned, cleaned2, takeaways, outline, prov, terms, md, appVars>>

CallKeyTakeaways ==
    /\ op = "none"
    /\ \E n \in Args \cup {DefaultN} :
        /\ arg' = n
        /\ takeaways' = keyTakeaways(text, n)
    /\ op' = "keyTakeaways"
    /\ UNCHANGED <<text, cleaned, cleaned2, title, outline, prov, terms, md, appVars>>

CallChunkOutline ==
    /\ op = "none"
    /\ op' = "chunkOutline"
    /\ outline' = chunkOutline(text)
    /\ prov' = OutlineRun(text).prov
    /\ UNCHANGED <<text, arg, cleaned, cleaned2, title, takeaways, terms, md, appVars>>

CallTopTerms ==
    /\ op = "none"
    /\ \E k \in Args \cup {DefaultK} :
        /\ arg' = k
        /\ terms' = topTerms(text, k)
    /\ op' = "topTerms"
    /\ UNCHANGED <<text, cleaned, cleaned2, title, takeaways, outline, prov, md, appVars>>

CallToMarkdown ==
    /\ op = "none"
    /\ op' = "toMarkdown"
    /\ md' = toMarkdown(text)
    /\ UNCHANGED <<text, arg, cleaned, cleaned2, title, takeaways, outline, prov, terms, appVars>>

Next ==
    \/ CallGuessTitle
    \/ CallKeyTakeaways
    \/ CallChunkOutline
    \/ CallTopTerms
    \/ CallToMarkdown

Spec == Init /\ [][Next]_vars

(***************************************************************************)
(* cleanText applied once and twice to strings of white space and letters  *)
(***************************************************************************)
CleanInit ==
    /\ text \in Strings({" ", TAB, NBSP, NL, CR, "a"}, MaxLen)
    /\ PipeIdle
    /\ AppIdle

CallCleanText ==
    /\ op = "none"
    /\ op' = "cleanText"
    /\ cleaned' = cleanText(text)
    /\ UNCHANGED <<text, arg, cleaned2, title, takeaways, outline, prov, terms, md, appVars>>

CallCleanTextAgain ==
    /\ op = "cleanText"
    /\ op' = "cleanText2"
    /\ cleaned2' = cleanText(cleaned)
    /\ UNCHANGED <<text, arg, cleaned, title, takeaways, outline, prov, terms, md, appVars>>

CleanNext ==
    \/ CallCleanText
    \/ CallCleanTextAgain

CleanSpec == CleanInit /\ [][CleanNext]_vars

(***************************************************************************)
(* The App component, lines 145-280.  stage and the error messages are     *)
(* only concatenated and compared: they are TLA+ strings, with "..." for   *)
(* the ellipsis and without the check mark and the command-key sign.       *)
(***************************************************************************)
MaxCalls == 2

\* the files a drop or the file chooser can hand over: what lines 159-165 read
Files == [type : {"application/pdf", "image/png", "text/plain"}, pdfName : BOOLEAN]
IsPdf(file) == file.type = "application/pdf" \/ file.pdfName
IsImage(file) == file.type = "image/png"

\* what extractFromPDF and extractFromImage can return: cleanText of some text
Extracted == {cleanText(t) : t \in {<<>>, <<NL,NL,"I","n","t","r","o",NL,"c","a","t"," ","t","h","e","."," "," ","c","a","t",".">>}}
\* what they can reject with: an Error with a message, an Error with an empty
\* message, a value that is no Error and has no message property
Rejections == {[hasMessage |-> TRUE, message |-> "Invalid PDF structure."], [hasMessage |-> TRUE, message |-> ""], [hasMessage |-> FALSE, message |-> ""]}
Unsupported == [hasMessage |-> TRUE, message |-> "Please provide a PDF or an image (PNG/JPG)."]
\* what the user can type into a textarea
Typed == {<<>>, <<"x">>}

InFlight == {i \in 1..Len(calls) : calls[i].pc \notin {"done", "failed"}}

\* line 172 without the fallback
StageOnErrorRaw(e) == "Error: " \o e.message
\* line 172: "Error: " + (e?.message || "Failed to process file")
StageOnError(e) == "Error: " \o (IF e.hasMessage /\ e.message # "" THEN e.message ELSE "Failed to process file")

\* An invocation of handleFiles: where it stands (pc), the text it extracted,
\* the error it caught, and, while it runs, rawText and markdown as they were
\* when it started (raw0, md0).
NoError == [hasMessage |-> FALSE, message |-> "none"]
NewCall(pc) == [pc |-> pc, extracted |-> <<>>, err |-> NoError, raw0 |-> rawText, md0 |-> markdown]
Returned(pc, e) == [pc |-> pc, extracted |-> <<>>, err |-> e, raw0 |-> <<>>, md0 |-> <<>>]

\* handleFiles up to its first await, lines 153-165; with an unsupported file
\* it runs to its end, through catch and finally, without ever awaiting
handleFiles(file) ==
    /\ Len(calls) < MaxCalls
    /\ IF IsPdf(file)
       THEN /\ calls' = Append(calls, NewCall("extractFromPDF"))
            /\ busy' = TRUE
            /\ stage' = "Reading file..."
       ELSE IF IsImage(file)
       THEN /\ calls' = Append(calls, NewCall("createWorker"))
            /\ busy' = TRUE
            /\ stage' = "Reading file..."
       ELSE /\ calls' = Append(calls, Returned("failed", Unsupported))
            /\ busy' = FALSE
            /\ stage' = StageOnError(Unsupported)
    /\ UNCHANGED <<rawText, markdown, pipeVars>>

\* lines 178-182
onDrop ==
    /\ ~busy
    /\ \E file \in Files : handleFiles(file)
    /\ UNCHANGED pickerOpen

\* line 193 and the button's disabled={busy}, line 211
openFilePicker ==
    /\ ~busy
    /\ pickerOpen' = TRUE
    /\ UNCHANGED <<stage, rawText, markdown, busy, calls, pipeVars>>

\* the file input's onChange, line 220: a file was chosen in the file chooser
inputOnChange ==
    /\ pickerOpen
    /\ pickerOpen' = FALSE
    /\ \E file \in Files : handleFiles(file)

\* the file chooser is closed without a choice
dismissPicker ==
    /\ pickerOpen
    /\ pickerOpen' = FALSE
    /\ UNCHANGED <<stage, rawText, markdown, busy, calls, pipeVars>>

\* extractFromImage, lines 135-138: the worker is ready
scanImage(i) ==
    /\ calls[i].pc = "createWorker"
    /\ calls' = [calls EXCEPT ![i].pc = "recognize"]
    /\ stage' = "Scanning image..."
    /\ UNCHANGED <<rawText, markdown, busy, pickerOpen, pipeVars>>

\* the awaited extraction resolves, lines 160-167
extractResolves(i) ==
    /\ calls[i].pc \in {"extractFromPDF", "recognize"}
    /\ \E t \in Extracted : calls' = [calls EXCEPT ![i].pc = "sleep", ![i].extracted = t]
    /\ stage' = "Condensing notes..."
    /\ UNCHANGED <<rawText, markdown, busy, pickerOpen, pipeVars>>

\* the awaited extraction rejects: catch and finally, lines 171-175
extractRejects(i) ==
    /\ calls[i].pc \in {"extractFromPDF", "createWorker", "recognize"}
    /\ \E e \in Rejections :
        /\ calls' = [calls EXCEPT ![i] = Returned("failed", e)]
        /\ stage' = StageOnError(e)
    /\ busy' = FALSE
    /\ UNCHANGED <<rawText, markdown, pickerOpen, pipeVars>>

\* after sleep(200): lines 168-170 and finally
storeResult(i) ==
    /\ calls[i].pc = "sleep"
    /\ calls' = [calls EXCEPT ![i] = Returned("done", NoError)]
    /\ rawText' = calls[i].extracted
    /\ markdown' = toMarkdown(calls[i].extracted)
    /\ stage' = "Done. Copy into Notion"
    /\ busy' = FALSE
    /\ UNCHANGED <<pickerOpen, pipeVars>>

\* lines 184-191; the Copy button is rendered only while rawText is not empty
onCopy ==
    /\ rawText # <<>>
    /\ stage' \in {"Copied! Paste into Notion with Ctrl+V", "Couldn't auto-copy. Select all and copy manually."}
    /\ UNCHANGED <<rawText, markdown, busy, pickerOpen, calls, pipeVars>>

\* the textareas' onChange, lines 251 and 265, rendered only while rawText is
\* not empty
editRawText ==
    /\ rawText # <<>>
    /\ \E v \in Typed : rawText' = v
    /\ UNCHANGED <<stage, markdown, busy, pickerOpen, calls, pipeVars>>

editMarkdown ==
    /\ rawText # <<>>
    /\ \E v \in Typed : markdown' = v
    /\ UNCHANGED <<stage, rawText, busy, pickerOpen, calls, pipeVars>>

AppInit ==
    /\ text = <<>>
    /\ PipeIdle
    /\ AppIdle

AppNext ==
    \/ onDrop
    \/ openFilePicker
    \/ inputOnChange
    \/ dismissPicker
    \/ \E i \in 1..Len(calls) : scanImage(i)
    \/ \E i \in 1..Len(calls) : extractResolves(i)
    \/ \E i \in 1..Len(calls) : extractRejects(i)
    \/ \E i \in 1..Len(calls) : storeResult(i)
    \/ onCopy
    \/ editRawText
    \/ editMarkdown

AppSpec == AppInit /\ [][AppNext]_vars

(***************************************************************************)
(* Properties                                                              *)
(***************************************************************************)
Lines(t) == SplitLines(cleanText(t))
Headings(L) == {i \in 1..Len(L) : isHeading(L[i])}

\* C1: for the empty string every pipeline function returns an empty or a
\* fallback output: guessTitle("") is "Notes", and keyTakeaways(""),
\* chunkOutline("") and topTerms("") are the empty sequence.
C1_EmptyInputEmptyOutput ==
    text = <<>> =>
        /\ op = "guessTitle" => title = STR_Notes
        /\ op = "keyTakeaways" => takeaways = <<>>
        /\ op = "chunkOutline" => outline = <<>>
        /\ op = "topTerms" => terms = <<>>

\* C2: guessTitle never returns the empty string: it returns the first line
\* of the normalized text with its prefix stripped when that line is shorter
\* than 80 characters, and the capitalised top five terms joined by " BULLET "
\* otherwise, and "Notes" whenever that result would be empty.
C2_TitleNeverEmpty ==
    op = "guessTitle" =>
        LET first == Lines(text)[1]
            top == topTerms(text, TitleTerms)
            result == IF Len(first) < 80
                      THEN StripPrefix(first)
                      ELSE Join([i \in 1..Len(top) |-> Capitalise(top[i])], <<" ", BULLET, " ">>)
        IN  /\ title # <<>>
            /\ title = IF result = <<>> THEN STR_Notes ELSE result

\* C3: for every n, negative n and 0 included, keyTakeaways(text, n) returns
\* at most min(n, number of sentences) sentences (none when that is below 1,
\* a length being never negative), each of them an element of
\* sentenceSplit(text).
C3_TakeawaysAtMostN ==
    op = "keyTakeaways" =>
        LET S == sentenceSplit(text)
        IN  /\ Len(takeaways) >= 0
            /\ Len(takeaways) <= Max(0, Min(arg, Len(S)))
            /\ \A i \in 1..Len(takeaways) : takeaways[i] \in Range(S)

\* C3 for n >= 0: exactly min(n, number of sentences) sentences of
\* sentenceSplit(text) are returned.
C3_TakeawaysNonNegativeN ==
    (op = "keyTakeaways" /\ arg >= 0) =>
        LET S == sentenceSplit(text)
        IN  /\ Len(takeaways) = Min(arg, Len(S))
            /\ \A i \in 1..Len(takeaways) : takeaways[i] \in Range(S)

\* the place of token w in the ranking of the tokens toks: the number of
\* distinct tokens that occur more often, or as often and first earlier
First(toks, w) == CHOOSE i \in 1..Len(toks) : toks[i] = w /\ \A j \in 1..(i-1) : toks[j] # w
Before(toks, w) == {v \in Range(toks) : \/ Count(toks, v) > Count(toks, w)
                                        \/ Count(toks, v) = Count(toks, w) /\ First(toks, v) < First(toks, w)}
Ranked(toks, ts) ==
    /\ \A i \in 1..Len(ts) : ts[i] \in Range(toks)
    /\ \A i \in 1..Len(ts) : Cardinality(Before(toks, ts[i])) = i - 1

\* C5: for every K, topTerms(text, K) returns at most K tokens (none when
\* K < 1), each a distinct token of tokenize(text), by occurrence count
\* descending and, among equal counts, in the order of first occurrence;
\* topTerms("cat cat cat dog dog bird", 2) is ["cat", "dog"].
C5_TopTermsAtMostK ==
    op = "topTerms" =>
        LET toks == tokenize(text)
        IN  /\ Len(terms) <= Max(0, arg)
            /\ Ranked(toks, terms)
            /\ (text = TermsExample /\ arg = 2) => terms = <<<<"c","a","t">>, <<"d","o","g">>>>

\* C5 for K >= 0: the first min(K, number of distinct tokens) tokens of the
\* ranking are returned.
C5_TopTermsNonNegativeK ==
    (op = "topTerms" /\ arg >= 0) =>
        LET toks == tokenize(text)
        IN  /\ Len(terms) = Min(arg, Cardinality(Range(toks)))
            /\ Ranked(toks, terms)
            /\ (text = TermsExample /\ arg = 2) => terms = <<<<"c","a","t">>, <<"d","o","g">>>>

\* The chunks of the lines L, block by block: a heading line is a block of
\* its own, and so is every longest run of lines that are no headings.
BlockChunks(L) ==
    LET n == Len(L)
        H == Headings(L)
        starts == Keep([i \in 1..n |-> i], {i \in 1..n : i \in H \/ i = 1 \/ (i - 1) \in H})
        m == Len(starts)
        size(k) == (IF k = m THEN n + 1 ELSE starts[k+1]) - starts[k]
    IN  [k \in 1..m |->
            IF starts[k] \in H
            THEN [heading |-> Trim(L[starts[k]]), body |-> <<>>]
            ELSE [heading |-> STR_Section,
                  body |-> Join([x \in 1..size(k) |-> Trim(L[starts[k] + x - 1])], <<" ">>)]]
OutlineExampleChunks ==
    << [heading |-> <<"I","n","t","r","o","d","u","c","t","i","o","n">>, body |-> <<>>],
       [heading |-> STR_Section, body |-> <<"S","o","m","e"," ","b","o","d","y"," ","t","e","x","t"," ","h","e","r","e","."," ","M","o","r","e"," ","b","o","d","y",".">>],
       [heading |-> <<"C","o","n","c","l","u","s","i","o","n">>, body |-> <<>>],
       [heading |-> STR_Section, body |-> <<"F","i","n","a","l"," ","r","e","m","a","r","k","s",".">>] >>

\* C4: chunkOutline returns, in line order, one chunk {heading: the trimmed
\* line, body: ""} per heading line and one chunk {heading: "Section", body:
\* the trimmed lines joined by single spaces} per run of lines between
\* headings, before the first or after the last; the example of the
\* specification gives its four chunks.
C4_OutlineIsSinglePass ==
    op = "chunkOutline" =>
        /\ outline = BlockChunks(Lines(text))
        /\ text = OutlineExample => outline = OutlineExampleChunks
C4_Witness ==
    /\ op = "chunkOutline"
    /\ text = OutlineExample
    /\ Len(outline) = 4

\* C10: chunkOutline loses and duplicates no line.  With prov[j] the lines
\* chunk j was built from: the chunks' lines, put one after the other, are
\* the lines 1, 2, ... in order; a heading line is a chunk of its own, with
\* its trimmed text as heading and an empty body, and there are as many of
\* these as heading lines; the other chunks are "Section" chunks whose body
\* is their lines' trimmed texts joined by spaces; a chunk with a body has
\* the heading "Section"; no two chunks built from the buffer are adjacent.
C10_NoLineLostOrDuplicated ==
    op = "chunkOutline" =>
        LET L == Lines(text)
            H == Headings(L)
            FromHeading == {j \in 1..Len(prov) : Len(prov[j]) = 1 /\ prov[j][1] \in H}
            FromBuffer == (1..Len(prov)) \ FromHeading
        IN  /\ Len(prov) = Len(outline)
            /\ Join(prov, <<>>) = [i \in 1..Len(L) |-> i]
            /\ Cardinality(FromHeading) = Cardinality(H)
            /\ \A j \in FromHeading : outline[j] = [heading |-> Trim(L[prov[j][1]]), body |-> <<>>]
            /\ \A j \in FromBuffer :
                /\ \A x \in 1..Len(prov[j]) : prov[j][x] \notin H
                /\ outline[j].heading = STR_Section
                /\ outline[j].body = Join([x \in 1..Len(prov[j]) |-> Trim(L[prov[j][x]])], <<" ">>)
            /\ \A j \in 1..Len(outline) : outline[j].body # <<>> => outline[j].heading = STR_Section
            /\ \A j \in 1..(Len(prov) - 1) : ~(j \in FromBuffer /\ (j + 1) \in FromBuffer)
C10_Witness ==
    /\ op = "chunkOutline"
    /\ \E j \in 1..Len(prov) : Len(prov[j]) >= 2
    /\ \E j \in 1..Len(prov) : outline[j].body = <<>> /\ outline[j].heading # STR_Section
    /\ Len(outline) >= 3

\* C8: cleanText is idempotent: cleanText(cleanText(x)) = cleanText(x).
C8_CleanTextIdempotent == op = "cleanText2" => cleaned2 = cleaned
C8_Witness ==
    /\ op = "cleanText2"
    /\ {NBSP, TAB, NL} \subseteq Range(text)
    /\ cleaned # <<>>
    /\ Len(cleaned) < Len(text)

\* s.split("\n")
SplitAtEvery(s, c) ==
    LET n == Len(s)
        at == Keep([i \in 1..n |-> i], {i \in 1..n : s[i] = c})
        m == Len(at)
    IN  [k \in 1..(m + 1) |-> SubSeq(s, IF k = 1 THEN 1 ELSE at[k-1] + 1, IF k = m + 1 THEN n ELSE at[k] - 1)]

\* C9: the lines of toMarkdown's output are "# " and the guessed title, an
\* empty line, "## Key Takeaways", one "- " line per takeaway, an empty line,
\* "## Outline", one "- **heading** EMDASH body" line per chunk with the body cut
\* to its first 220 characters, an empty line, "## Terms", and one "> " line
\* of the terms joined by ", ".
C9_MarkdownLayout ==
    op = "toMarkdown" =>
        LET ls == SplitAtEvery(md, NL)
            tk == keyTakeaways(text, 6)
            ol == chunkOutline(text)
            ts == topTerms(text, 12)
            nt == Len(tk)
            no == Len(ol)
        IN  /\ Len(ls) = 8 + nt + no
            /\ ls[1] = <<"#", " ">> \o guessTitle(text)
            /\ ls[2] = <<>>
            /\ ls[3] = STR_KeyTakeaways
            /\ \A i \in 1..nt : ls[3 + i] = <<"-", " ">> \o tk[i]
            /\ ls[4 + nt] = <<>>
            /\ ls[5 + nt] = STR_Outline
            /\ \A j \in 1..no : ls[5 + nt + j] = <<"-", " ", "*", "*">> \o ol[j].heading \o <<"*", "*", " ", EMDASH, " ">> \o SubSeq(ol[j].body, 1, Min(220, Len(ol[j].body)))
            /\ ls[6 + nt + no] = <<>>
            /\ ls[7 + nt + no] = STR_Terms
            /\ ls[8 + nt + no] = <<">", " ">> \o Join(ts, <<",", " ">>)
C9_Witness ==
    /\ op = "toMarkdown"
    /\ Len(keyTakeaways(text, 6)) = 6
    /\ \E j \in 1..Len(chunkOutline(text)) : Len(chunkOutline(text)[j].body) > 220
    /\ Len(topTerms(text, 12)) >= 2
    /\ Len(md) > 300

\* C6: at most one invocation of handleFiles is between its setBusy(true)
\* and its setBusy(false) at any time.
C6_OneFileInFlight == Cardinality(InFlight) <= 1

\* invocation i of handleFiles goes through catch and finally in this step
Fails(i) ==
    /\ calls'[i].pc = "failed"
    /\ i <= Len(calls) => calls[i].pc # "failed"
\* rawText and markdown as they were when invocation i started
RawAtStart(i) == IF i <= Len(calls) THEN calls[i].raw0 ELSE rawText
MarkdownAtStart(i) == IF i <= Len(calls) THEN calls[i].md0 ELSE markdown

\* C7 as stated: when handleFiles fails, stage is "Error: " and the error's
\* message, rawText and markdown have the values they had before the
\* invocation started, and busy is false.
C7_FailureRestoresStart ==
    [][\A i \in 1..Len(calls') : Fails(i) =>
        /\ calls'[i].err.hasMessage => stage' = "Error: " \o calls'[i].err.message
        /\ rawText' = RawAtStart(i)
        /\ markdown' = MarkdownAtStart(i)
        /\ busy' = FALSE]_vars

\* C7: when handleFiles fails, stage is "Error: " and the error's message,
\* or "Error: Failed to process file" when the error has no message or an
\* empty one; the failing invocation stores nothing, rawText and markdown
\* staying as they were right before it failed; and busy is false.
C7_FailureStoresNothing ==
    [][\A i \in 1..Len(calls') : Fails(i) =>
        /\ stage' = "Error: " \o (IF calls'[i].err.hasMessage /\ calls'[i].err.message # ""
                                  THEN calls'[i].err.message
                                  ELSE "Failed to process file")
        /\ rawText' = rawText
        /\ markdown' = markdown
        /\ busy' = FALSE]_vars
C7_Witness ==
    /\ \E i \in 1..Len(calls) : calls[i].pc = "failed" /\ calls[i].err \in Rejections
    /\ stage = "Error: Failed to process file"
    /\ rawText # <<>>
    /\ markdown # <<>>
    /\ ~busy

============================================================================
